---------------------------- MODULE Spec2Model ----------------------------
(***************************************************************************)
(* The SKU subsystem of the e-commerce backend: the code tables, the field *)
(* encoders, the check digit, generateSKU with its sequence allocator and  *)
(* its final uniqueness check, validateSKU, parseSKU, generateBatchSKUs,   *)
(* and the createProduct workflow that persists a product under the        *)
(* catalogue's unique SKU index.                                           *)
(*                                                                         *)
(* A JavaScript string is modelled as a sequence of one-character strings  *)
(* ("GEN" is <<"G","E","N">>), so that substring, split, includes, the     *)
(* regular expressions and the check digit are computed character by       *)
(* character as the code computes them.                                    *)
(***************************************************************************)
EXTENDS Integers, Sequences, FiniteSets, Bags, TLC

(***************************************************************************)
(* Bounds of the model.                                                    *)
(***************************************************************************)
\* Math.random() draws a sequence number from 1000 .. 1000 + MaxSeq - 1
\* (the code draws from 1000 .. 9999).
MaxSeq == 2
\* New createProduct requests are accepted while the catalogue holds fewer
\* products than this.
MaxProducts == 2
\* A product name is kept to this many characters when generateSKU appends
\* "_<timestamp>" to it; the appended characters are an underscore and digits.
MaxNameLen == 12
\* generateBatchSKUs is given at most this many items.
MaxBatch == 3
\* The longest of the short strings generateCheckDigit is applied to.
MaxBodyLen == 3

(***************************************************************************)
(* JavaScript values.                                                      *)
(***************************************************************************)
\* undefined (a missing field); its one element is no single character, so it
\* differs from every string.
Undefined == << "undefined" >>
\* undefined in the place of a list of strings (a missing tags field).
NoTags == << Undefined >>
\* null, as parseSKU returns it (parseSKU's results are records with a type).
Null == [type |-> "null"]
\* null in the place of a string (the sku of a failed batch item).
NullSku == << "null" >>

Upper ==
  << "A","B","C","D","E","F","G","H","I","J","K","L","M",
     "N","O","P","Q","R","S","T","U","V","W","X","Y","Z" >>
Lower ==
  << "a","b","c","d","e","f","g","h","i","j","k","l","m",
     "n","o","p","q","r","s","t","u","v","w","x","y","z" >>
Digits == << "0","1","2","3","4","5","6","7","8","9" >>

Range(s) == { s[i] : i \in DOMAIN s }
Min(a, b) == IF a < b THEN a ELSE b
Max(a, b) == IF a < b THEN b ELSE a
\* The position of c in s, 0 when absent.
IndexIn(c, s) == IF \E i \in DOMAIN s : s[i] = c THEN CHOOSE i \in DOMAIN s : s[i] = c ELSE 0

UpperLetters == Range(Upper)
LowerLetters == Range(Lower)
DecimalDigits == Range(Digits)
IsUpper(c) == c \in UpperLetters
IsLower(c) == c \in LowerLetters
IsDigit(c) == c \in DecimalDigits
IsWordChar(c) == IsUpper(c) \/ IsLower(c) \/ IsDigit(c) \/ c = "_"
IsSpace(c) == c \in {" ", "\t", "\n"}

ToUpperChar(c) == IF IsLower(c) THEN Upper[IndexIn(c, Lower)] ELSE c
ToLowerChar(c) == IF IsUpper(c) THEN Lower[IndexIn(c, Upper)] ELSE c
toUpperCase(s) == [i \in 1..Len(s) |-> ToUpperChar(s[i])]
toLowerCase(s) == [i \in 1..Len(s) |-> ToLowerChar(s[i])]

\* s.substring(a, b) for 0 <= a <= b
substring(s, a, b) == SubSeq(s, Min(a, Len(s)) + 1, Min(b, Len(s)))
\* s.slice(a) for a >= 0, and s.slice(-k)
sliceFrom(s, a) == SubSeq(s, Min(a, Len(s)) + 1, Len(s))
sliceLast(s, k) == SubSeq(s, Max(Len(s) - k, 0) + 1, Len(s))
\* s.padEnd(n, c) and s.padStart(n, c) for a one-character filler
padEnd(s, n, c) == s \o [i \in 1..Max(n - Len(s), 0) |-> c]
padStart(s, n, c) == [i \in 1..Max(n - Len(s), 0) |-> c] \o s
\* s.includes(t)
includes(s, t) == \E i \in 0..(Len(s) - Len(t)) : SubSeq(s, i + 1, i + Len(t)) = t
\* s.charAt(0)
charAt0(s) == IF Len(s) = 0 THEN << >> ELSE << s[1] >>

\* s.trimStart(), s.trimEnd(), s.trim()
trimStart(s) ==
  IF \A k \in DOMAIN s : IsSpace(s[k]) THEN << >>
  ELSE SubSeq(s, CHOOSE k \in DOMAIN s :
                   ~IsSpace(s[k]) /\ \A j \in 1..(k - 1) : IsSpace(s[j]), Len(s))
trimEnd(s) ==
  IF \A k \in DOMAIN s : IsSpace(s[k]) THEN << >>
  ELSE SubSeq(s, 1, CHOOSE k \in DOMAIN s :
                      ~IsSpace(s[k]) /\ \A j \in (k + 1)..Len(s) : IsSpace(s[j]))
trim(s) == trimEnd(trimStart(s))

\* parts.join(sep)
RECURSIVE join(_, _)
join(parts, sep) ==
  IF Len(parts) = 0 THEN << >>
  ELSE IF Len(parts) = 1 THEN parts[1]
  ELSE parts[1] \o sep \o join(Tail(parts), sep)

\* the j-th element of a set of numbers in increasing order
Nth(S, j) == CHOOSE k \in S : Cardinality({ m \in S : m < k }) = j - 1

\* s.split(c) for a one-character separator: always at least one part
split(s, c) ==
  LET seps == { k \in DOMAIN s : s[k] = c }
      n == Cardinality(seps)
      Sep(j) == IF j = 0 THEN 0 ELSE IF j = n + 1 THEN Len(s) + 1 ELSE Nth(seps, j)
  IN  [ j \in 1..(n + 1) |-> SubSeq(s, Sep(j - 1) + 1, Sep(j) - 1) ]

\* s.split(/\s+/).filter(word => word.length > 0): the maximal runs of
\* non-space characters
words(s) ==
  LET starts == { k \in DOMAIN s : ~IsSpace(s[k]) /\ (k = 1 \/ IsSpace(s[k - 1])) }
      End(a) == CHOOSE e \in a..Len(s) :
                  /\ \A m \in a..e : ~IsSpace(s[m])
                  /\ e = Len(s) \/ IsSpace(s[e + 1])
  IN  [ j \in 1..Cardinality(starts) |-> SubSeq(s, Nth(starts, j), End(Nth(starts, j))) ]

\* n.toString() for a natural number
RECURSIVE numToString(_)
numToString(n) ==
  IF n < 10 THEN << Digits[n + 1] >> ELSE numToString(n \div 10) \o << Digits[(n % 10) + 1] >>

\* parseInt of a string of digits (NaN is not modelled: callers test IsDigit)
parseInt(s) ==
  LET value[i \in 0..Len(s)] ==
        IF i = 0 THEN 0 ELSE value[i - 1] * 10 + (IndexIn(s[i], Digits) - 1)
  IN  value[Len(s)]

\* Date.now(): milliseconds since the epoch, held as whole seconds and the
\* millisecond within the second (the value exceeds 32 bits).
Clock == { [sec |-> 1762214400, ms |-> 7], [sec |-> 1762214401, ms |-> 999] }
\* Date.now().toString()
NowToString(t) == numToString(t.sec) \o padStart(numToString(t.ms), 3, "0")

(***************************************************************************)
(* Code tables (skuGenerator.js 9-91), in declaration order.               *)
(***************************************************************************)
CATEGORY_CODES ==
  << << <<"F","a","s","h","i","o","n">>, <<"F","S","H">> >>,
     << <<"E","l","e","c","t","r","o","n","i","c","s">>, <<"E","L","E">> >>,
     << <<"B","e","a","u","t","y">>, <<"B","T","Y">> >>,
     << <<"H","o","m","e"," ","&"," ","G","a","r","d","e","n">>, <<"H","G","D">> >>,
     << <<"S","p","o","r","t","s">>, <<"S","P","T">> >>,
     << <<"B","o","o","k","s">>, <<"B","O","K">> >>,
     << <<"T","o","y","s">>, <<"T","O","Y">> >>,
     << <<"H","e","a","l","t","h">>, <<"H","T","H">> >>,
     << <<"F","o","o","d">>, <<"F","O","D">> >>,
     << <<"A","u","t","o","m","o","t","i","v","e">>, <<"A","U","T">> >>,
     << <<"B","a","b","y"," ","&"," ","K","i","d","s">>, <<"B","K","D">> >>,
     << <<"P","e","t"," ","S","u","p","p","l","i","e","s">>, <<"P","E","T">> >> >>

SUBCATEGORY_CODES ==
  << << <<"N","e","c","k","l","a","c","e","s">>, <<"N","C","K">> >>,
     << <<"E","a","r","r","i","n","g","s">>, <<"E","A","R">> >>,
     << <<"B","r","a","c","e","l","e","t","s">>, <<"B","R","C">> >>,
     << <<"R","i","n","g","s">>, <<"R","N","G">> >>,
     << <<"B","a","n","g","l","e","s">>, <<"B","N","G">> >>,
     << <<"A","n","k","l","e","t","s">>, <<"A","N","K">> >>,
     << <<"B","r","o","o","c","h","e","s">>, <<"B","R","O">> >>,
     << <<"P","e","n","d","a","n","t","s">>, <<"P","N","D">> >>,
     << <<"C","h","a","i","n","s">>, <<"C","H","N">> >>,
     << <<"S","e","t","s">>, <<"S","E","T">> >>,
     << <<"W","a","t","c","h","e","s">>, <<"W","T","C">> >>,
     << <<"S","u","n","g","l","a","s","s","e","s">>, <<"S","U","N">> >>,
     << <<"B","a","g","s">>, <<"B","A","G">> >>,
     << <<"S","h","o","e","s">>, <<"S","H","O">> >>,
     << <<"D","r","e","s","s","e","s">>, <<"D","R","S">> >>,
     << <<"T","o","p","s">>, <<"T","O","P">> >>,
     << <<"B","o","t","t","o","m","s">>, <<"B","T","M">> >>,
     << <<"O","u","t","e","r","w","e","a","r">>, <<"O","U","T">> >>,
     << <<"A","c","c","e","s","s","o","r","i","e","s">>, <<"A","C","C">> >>,
     << <<"T","r","a","d","i","t","i","o","n","a","l">>, <<"T","R","D">> >>,
     << <<"S","m","a","r","t","p","h","o","n","e","s">>, <<"S","M","T">> >>,
     << <<"L","a","p","t","o","p","s">>, <<"L","P","T">> >>,
     << <<"T","a","b","l","e","t","s">>, <<"T","A","B">> >>,
     << <<"C","a","m","e","r","a","s">>, <<"C","A","M">> >>,
     << <<"A","u","d","i","o">>, <<"A","U","D">> >>,
     << <<"G","a","m","i","n","g">>, <<"G","A","M">> >>,
     << <<"S","m","a","r","t"," ","H","o","m","e">>, <<"S","M","H">> >>,
     << <<"W","e","a","r","a","b","l","e","s">>, <<"W","E","R">> >>,
     << <<"S","k","i","n","c","a","r","e">>, <<"S","K","N">> >>,
     << <<"M","a","k","e","u","p">>, <<"M","K","P">> >>,
     << <<"H","a","i","r","c","a","r","e">>, <<"H","R","C">> >>,
     << <<"F","r","a","g","r","a","n","c","e">>, <<"F","R","G">> >>,
     << <<"T","o","o","l","s">>, <<"T","L","S">> >> >>

MATERIAL_CODES ==
  << << <<"G","o","l","d">>, <<"G","L","D">> >>,
     << <<"S","i","l","v","e","r">>, <<"S","L","V">> >>,
     << <<"P","l","a","t","i","n","u","m">>, <<"P","L","T">> >>,
     << <<"D","i","a","m","o","n","d">>, <<"D","M","D">> >>,
     << <<"P","e","a","r","l">>, <<"P","R","L">> >>,
     << <<"R","u","b","y">>, <<"R","B","Y">> >>,
     << <<"E","m","e","r","a","l","d">>, <<"E","M","R">> >>,
     << <<"S","a","p","p","h","i","r","e">>, <<"S","P","H">> >>,
     << <<"S","t","a","i","n","l","e","s","s"," ","S","t","e","e","l">>, <<"S","S","T">> >>,
     << <<"T","i","t","a","n","i","u","m">>, <<"T","T","N">> >>,
     << <<"C","o","p","p","e","r">>, <<"C","P","R">> >>,
     << <<"B","r","a","s","s">>, <<"B","R","S">> >>,
     << <<"R","o","s","e"," ","G","o","l","d">>, <<"R","G","D">> >>,
     << <<"W","h","i","t","e"," ","G","o","l","d">>, <<"W","G","D">> >>,
     << <<"Y","e","l","l","o","w"," ","G","o","l","d">>, <<"Y","G","D">> >>,
     << <<"S","t","e","r","l","i","n","g"," ","S","i","l","v","e","r">>, <<"S","S","L">> >>,
     << <<"G","e","m","s","t","o","n","e">>, <<"G","E","M">> >>,
     << <<"C","r","y","s","t","a","l">>, <<"C","R","Y">> >>,
     << <<"A","l","l","o","y">>, <<"A","L","Y">> >>,
     << <<"L","e","a","t","h","e","r">>, <<"L","T","H">> >>,
     << <<"F","a","b","r","i","c">>, <<"F","B","R">> >>,
     << <<"P","l","a","s","t","i","c">>, <<"P","L","S">> >>,
     << <<"W","o","o","d">>, <<"W","O","D">> >>,
     << <<"C","e","r","a","m","i","c">>, <<"C","E","R">> >>,
     << <<"G","l","a","s","s">>, <<"G","L","S">> >> >>

materialPriority ==
  << <<"d","i","a","m","o","n","d">>,
     <<"p","l","a","t","i","n","u","m">>,
     <<"g","o","l","d">>,
     <<"s","i","l","v","e","r">>,
     <<"p","e","a","r","l">>,
     <<"r","u","b","y">>,
     <<"e","m","e","r","a","l","d">>,
     <<"s","a","p","p","h","i","r","e">>,
     <<"s","t","a","i","n","l","e","s","s"," ","s","t","e","e","l">>,
     <<"t","i","t","a","n","i","u","m">>,
     <<"s","t","e","r","l","i","n","g"," ","s","i","l","v","e","r">>,
     <<"r","o","s","e"," ","g","o","l","d">>,
     <<"w","h","i","t","e"," ","g","o","l","d">>,
     <<"y","e","l","l","o","w"," ","g","o","l","d">>,
     <<"g","e","m","s","t","o","n","e">>,
     <<"c","r","y","s","t","a","l">>,
     <<"c","o","p","p","e","r">>,
     <<"b","r","a","s","s">>,
     <<"a","l","l","o","y">>,
     <<"l","e","a","t","h","e","r">>,
     <<"f","a","b","r","i","c">>,
     <<"w","o","o","d">>,
     <<"c","e","r","a","m","i","c">> >>

\* table[key], undefined when the table has no such key
Lookup(table, key) ==
  IF \E i \in DOMAIN table : table[i][1] = key
  THEN table[CHOOSE i \in DOMAIN table : table[i][1] = key][2]
  ELSE Undefined
\* Object.keys(table).find(key => table[key] === code)
ReverseLookup(table, code) ==
  IF \E i \in DOMAIN table : table[i][2] = code
  THEN table[CHOOSE i \in DOMAIN table :
               table[i][2] = code /\ \A j \in 1..(i - 1) : table[j][2] # code][1]
  ELSE Undefined

\* a || b for string-or-undefined operands
OrElse(a, b) == IF a = Undefined \/ a = << >> THEN b ELSE a

(***************************************************************************)
(* getBrandCode (skuGenerator.js 94-113)                                   *)
(***************************************************************************)
\* the alternatives of /\b(inc|ltd|llc|corp|company|co|&|and)\b/gi, in order
BrandStopWords ==
  << <<"i","n","c">>, <<"l","t","d">>, <<"l","l","c">>, <<"c","o","r","p">>,
     <<"c","o","m","p","a","n","y">>, <<"c","o">>, <<"&">>, <<"a","n","d">> >>
\* \b between s[k] and s[k+1] (k = 0: the start, k = Len(s): the end)
WordBoundary(s, k) ==
  LET before == k >= 1 /\ k <= Len(s) /\ IsWordChar(s[k])
      after  == k + 1 >= 1 /\ k + 1 <= Len(s) /\ IsWordChar(s[k + 1])
  IN  before # after
\* the length of the regex's match starting at s[i], 0 when there is none
StopWordAt(s, i) ==
  LET hits == { a \in DOMAIN BrandStopWords :
                  /\ i + Len(BrandStopWords[a]) - 1 <= Len(s)
                  /\ toLowerCase(SubSeq(s, i, i + Len(BrandStopWords[a]) - 1))
                       = BrandStopWords[a]
                  /\ WordBoundary(s, i - 1)
                  /\ WordBoundary(s, i + Len(BrandStopWords[a]) - 1) }
  IN  IF hits = {} THEN 0
      ELSE Len(BrandStopWords[CHOOSE a \in hits : \A b \in hits : a <= b])
\* brandName.replace(/\b(...)\b/gi, '')
StripStopWords(s, i) ==
  LET rest[k \in 1..(Len(s) + 1)] ==
        IF k > Len(s) THEN << >>
        ELSE IF StopWordAt(s, k) > 0 THEN rest[k + StopWordAt(s, k)]
        ELSE << s[k] >> \o rest[k + 1]
  IN  rest[i]

RECURSIVE Initials(_)
Initials(ws) == IF Len(ws) = 0 THEN << >> ELSE charAt0(ws[1]) \o Initials(Tail(ws))

getBrandCode(brandName) ==
  IF brandName = Undefined \/ brandName = << >> THEN <<"U","N","B">>
  ELSE LET cleanBrand == trim(StripStopWords(brandName, 1))
           ws == words(cleanBrand)
       IN  IF Len(cleanBrand) <= 3 THEN padEnd(toUpperCase(cleanBrand), 3, "X")
           ELSE IF Len(ws) >= 2
                THEN padEnd(toUpperCase(Initials(SubSeq(ws, 1, Min(3, Len(ws))))), 3, "X")
                ELSE toUpperCase(substring(cleanBrand, 0, 3))

(***************************************************************************)
(* getMaterialCode (skuGenerator.js 116-135)                               *)
(***************************************************************************)
\* `${value}` of a string-or-undefined value
Interpolate(v) == IF v = Undefined THEN <<"u","n","d","e","f","i","n","e","d">> ELSE v

MaterialCodeOf(material) ==
  OrElse(Lookup(MATERIAL_CODES, toUpperCase(charAt0(material)) \o sliceFrom(material, 1)),
         OrElse(Lookup(MATERIAL_CODES, toUpperCase(material)),
                toUpperCase(substring(material, 0, 3))))

getMaterialCode(productName, tags) ==
  LET tagList == IF tags = NoTags THEN << >> ELSE tags
      searchText == toLowerCase(Interpolate(productName) \o <<" ">> \o join(tagList, <<" ">>))
      hits == { i \in DOMAIN materialPriority :
                  includes(searchText, toLowerCase(materialPriority[i])) }
  IN  IF hits = {} THEN <<"G","E","N">>
      ELSE MaterialCodeOf(materialPriority[CHOOSE i \in hits : \A j \in hits : i <= j])

(***************************************************************************)
(* generateCheckDigit (skuGenerator.js 162-186)                            *)
(***************************************************************************)
\* char => /[A-Z]/.test(char) ? char.charCodeAt(0) - 64 : parseInt(char) || 0
CharNumber(c) ==
  IF IsUpper(c) THEN IndexIn(c, Upper)
  ELSE IF IsDigit(c) THEN IndexIn(c, Digits) - 1
  ELSE 0

\* variant: num = num % 10, without the + 1
LuhnTerm_NoCarry(num, alternate) ==
  IF alternate THEN (num * 2) % 10 ELSE num

\* one step of the loop body for a value num with the flag alternate
LuhnTerm(num, alternate) ==
  IF alternate
  THEN IF num * 2 > 9 THEN ((num * 2) % 10) + 1 ELSE num * 2
  ELSE num

\* the sum of the loop from index i down to 1, entered with the flag alternate
RECURSIVE LuhnSum(_, _, _)
LuhnSum(s, i, alternate) ==
  IF i = 0 THEN 0
  ELSE LuhnTerm(CharNumber(s[i]), alternate) + LuhnSum(s, i - 1, ~alternate)

\* variant: return 10 - (sum % 10), without the final % 10
generateCheckDigit_NoFinalMod(sku) == 10 - (LuhnSum(sku, Len(sku), FALSE) % 10)

generateCheckDigit(sku) == (10 - (LuhnSum(sku, Len(sku), FALSE) % 10)) % 10

(***************************************************************************)
(* The synchronous part of generateSKU (skuGenerator.js 191-225)           *)
(***************************************************************************)
\* A missing price.
NoPrice == -1

PriceCode(price) ==
  IF price = NoPrice \/ price = 0 THEN "A"
  ELSE IF price >= 50000 THEN "P"
  ELSE IF price >= 20000 THEN "H"
  ELSE IF price >= 10000 THEN "M"
  ELSE IF price >= 5000 THEN "L"
  ELSE "B"

\* variant: CATEGORY_CODES[category], without || 'GEN'
CategoryCode_NoDefault(category) == Lookup(CATEGORY_CODES, Interpolate(category))

CategoryCode(category) == OrElse(Lookup(CATEGORY_CODES, Interpolate(category)), <<"G","E","N">>)

SubcategoryCode(subcategory) ==
  IF subcategory = Undefined \/ subcategory = << >> THEN <<"G","E","N">>
  ELSE OrElse(Lookup(SUBCATEGORY_CODES, subcategory),
              toUpperCase(substring(subcategory, 0, 3)))

\* the five codes of an attribute payload
Codes(productData) ==
  [ categoryCode    |-> CategoryCode(productData.category),
    subcategoryCode |-> SubcategoryCode(productData.subcategory),
    materialCode    |-> getMaterialCode(productData.name, productData.tags),
    brandCode       |-> getBrandCode(productData.brand),
    priceCode       |-> << PriceCode(productData.price) >> ]

\* `${categoryCode}${subcategoryCode}${materialCode}${brandCode}${priceCode}`
PrefixOf(c) ==
  c.categoryCode \o c.subcategoryCode \o c.materialCode \o c.brandCode \o c.priceCode

\* the final SKU assembled from the codes and a sequence number (229-233)
FinalSKU(c, sequentialNumber) ==
  LET baseSKU == PrefixOf(c) \o sequentialNumber
      checkDigit == generateCheckDigit(baseSKU)
  IN  join(<< c.categoryCode, c.subcategoryCode, c.materialCode, c.brandCode,
              c.priceCode, sequentialNumber, numToString(checkDigit) >>, <<"-">>)

\* the catch block's fallback (251-255)
FallbackSKU(productData, timestamp, random) ==
  join(<< CategoryCode(productData.category),
          <<"F","A","L","L","B","A","C","K">>,
          NowToString(timestamp),
          padStart(numToString(random), 3, "0") >>, <<"-">>)

(***************************************************************************)
(* validateSKU (skuGenerator.js 260-283)                                   *)
(***************************************************************************)
ErrRequired == "SKU is required and must be a string"
ErrFormat == "Invalid SKU format"
ErrCheckDigit == "Invalid SKU check digit"
NoError == "none"

AllUpper(s) == \A i \in DOMAIN s : IsUpper(s[i])
AllDigits(s) == \A i \in DOMAIN s : IsDigit(s[i])

\* variant: /^[A-Z]+-[A-Z]+-[A-Z]+-[A-Z]+-[A-Z]+-\d+-\d+$/
skuPattern_AnySegmentLength(sku) ==
  LET parts == split(sku, "-")
  IN  /\ Len(parts) = 7
      /\ \A i \in 1..5 : parts[i] # << >> /\ AllUpper(parts[i])
      /\ \A i \in 6..7 : parts[i] # << >> /\ AllDigits(parts[i])

\* /^[A-Z]{3}-[A-Z]{3}-[A-Z]{3}-[A-Z]{3}-[A-Z]-\d{4}-\d$/.test(sku)
skuPattern(sku) ==
  /\ Len(sku) = 24
  /\ \A i \in {4, 8, 12, 16, 18, 23} : sku[i] = "-"
  /\ \A i \in {1, 2, 3, 5, 6, 7, 9, 10, 11, 13, 14, 15, 17} : IsUpper(sku[i])
  /\ \A i \in {19, 20, 21, 22, 24} : IsDigit(sku[i])

\* variant: a wrong check digit is reported as a format error
validateSKU_OneError(sku) ==
  IF sku = Undefined \/ sku = << >> THEN [valid |-> FALSE, error |-> ErrRequired]
  ELSE IF ~skuPattern(sku) THEN [valid |-> FALSE, error |-> ErrFormat]
  ELSE IF parseInt(<< sku[24] >>)
            # generateCheckDigit(join(SubSeq(split(sku, "-"), 1, 6), << >>))
       THEN [valid |-> FALSE, error |-> ErrFormat]
       ELSE [valid |-> TRUE, error |-> NoError]

validateSKU(sku) ==
  IF sku = Undefined \/ sku = << >> THEN [valid |-> FALSE, error |-> ErrRequired]
  ELSE IF ~skuPattern(sku) THEN [valid |-> FALSE, error |-> ErrFormat]
  ELSE LET parts == split(sku, "-")
           checkDigit == parseInt(parts[7])
           baseSKU == join(SubSeq(parts, 1, 6), << >>)
           expectedCheckDigit == generateCheckDigit(baseSKU)
       IN  IF checkDigit # expectedCheckDigit
           THEN [valid |-> FALSE, error |-> ErrCheckDigit]
           ELSE [valid |-> TRUE, error |-> NoError]

(***************************************************************************)
(* parseSKU (skuGenerator.js 286-326)                                      *)
(***************************************************************************)
priceRanges(priceCode) ==
  CASE priceCode = <<"P">> -> "Premium (50,000+)"
    [] priceCode = <<"H">> -> "High (20,000-50,000)"
    [] priceCode = <<"M">> -> "Medium (10,000-20,000)"
    [] priceCode = <<"L">> -> "Low (5,000-10,000)"
    [] priceCode = <<"B">> -> "Budget (<5,000)"
    [] priceCode = <<"A">> -> "Unspecified"
    [] OTHER -> "undefined"

\* lines 296-325: the record built from the seven parts
ParsedRecord(sku, parts) ==
  [ type             |-> "record",
    categoryCode     |-> parts[1],
    category         |-> ReverseLookup(CATEGORY_CODES, parts[1]),
    subcategoryCode  |-> parts[2],
    subcategory      |-> ReverseLookup(SUBCATEGORY_CODES, parts[2]),
    materialCode     |-> parts[3],
    material         |-> ReverseLookup(MATERIAL_CODES, parts[3]),
    brandCode        |-> parts[4],
    priceCode        |-> parts[5],
    priceRange       |-> priceRanges(parts[5]),
    sequentialNumber |-> parts[6],
    checkDigit       |-> parts[7],
    isValid          |-> validateSKU(sku).valid ]

\* variant: null whenever validateSKU rejects the argument
parseSKU_NullWhenInvalid(sku) ==
  IF ~validateSKU(sku).valid THEN Null ELSE ParsedRecord(sku, split(sku, "-"))

parseSKU(sku) ==
  IF sku = Undefined \/ sku = << >> THEN Null
  ELSE LET parts == split(sku, "-")
       IN  IF Len(parts) # 7 THEN Null ELSE ParsedRecord(sku, parts)

(***************************************************************************)
(* The requests and payloads the model draws from.                         *)
(***************************************************************************)
NoCall == [ op |-> "none" ]

Request(sku, name, category, subcategory, tags, price) ==
  [ sku |-> sku, name |-> name, category |-> category, subcategory |-> subcategory,
    tags |-> tags, price |-> price, originalPrice |-> NoPrice ]

Requests ==
  { \* an empty payload: GEN-GEN-GEN-UNB-A
    Request(Undefined, Undefined, Undefined, Undefined, NoTags, NoPrice),
    \* a supplied SKU that generateSKU also produces for the empty payload
    Request(<<"G","E","N","-","G","E","N","-","G","E","N","-","U","N","B","-","A","-",
              "1","0","0","0","-","3">>,
            Undefined, Undefined, Undefined, NoTags, NoPrice),
    \* a supplied SKU of the seed data's form
    Request(<<"D","R","-","0","0","1">>, Undefined, Undefined, Undefined, NoTags,
            NoPrice) }

Payload(name, category, subcategory, brand, tags, price) ==
  [ name |-> name, category |-> category, subcategory |-> subcategory, brand |-> brand,
    tags |-> tags, price |-> price ]

\* the entirely empty payload
EmptyPayload == Payload(Undefined, Undefined, Undefined, Undefined, NoTags, NoPrice)

\* the payloads generateBatchSKUs is given
BatchPayloads ==
  { EmptyPayload,
    \* a subcategory with no table entry and fewer than three letters
    Payload(<<"T","V">>, <<"E","l","e","c","t","r","o","n","i","c","s">>, <<"T","V">>,
            Undefined, << >>, 60000),
    \* every value in the tables
    Payload(<<"G","o","l","d"," ","R","i","n","g">>, <<"F","a","s","h","i","o","n">>,
            <<"R","i","n","g","s">>, <<"A","c","m","e"," ","C","o">>,
            << <<"g","i","f","t">> >>, 5000) }

\* price || originalPrice
PriceOr(price, originalPrice) ==
  IF price = NoPrice \/ price = 0 THEN originalPrice ELSE price

\* the argument createProduct gives generateSKU (product.controller.js
\* 49-55): no brand
GenerateArgs(req) ==
  [ name |-> req.name, category |-> req.category, subcategory |-> req.subcategory,
    brand |-> Undefined, tags |-> req.tags,
    price |-> PriceOr(req.price, req.originalPrice) ]

\* `${name}_${Date.now()}`, kept to MaxNameLen characters
Renamed(name, now) ==
  SubSeq(Interpolate(name) \o <<"_">> \o NowToString(now), 1,
         Min(MaxNameLen, Len(Interpolate(name)) + 1 + Len(NowToString(now))))

\* line 242: { ...productData, name: `${name}_${Date.now()}` }
RenamedData(productData, now) == [ productData EXCEPT !.name = Renamed(productData.name, now) ]

\* the payloads generateSKU is called with: the callers' and, after a final
\* collision, those with the name changed (once and again)
RenamedOnce(S) == { RenamedData(pd, now) : pd \in S, now \in Clock }
CallerPayloads == { GenerateArgs(req) : req \in Requests } \cup BatchPayloads
GeneratePayloads ==
  CallerPayloads \cup RenamedOnce(CallerPayloads) \cup RenamedOnce(RenamedOnce(CallerPayloads))

\* The values of Codes, FinalSKU and validateSKU on the model's requests,
\* computed once and held as explicit functions; any other argument is
\* computed when it is met.
CodesTable == << >> @@ [ pd \in GeneratePayloads |-> Codes(pd) ]
CodesOf(productData) ==
  IF productData \in DOMAIN CodesTable THEN CodesTable[productData] ELSE Codes(productData)
FinalSKUTable ==
  << >> @@ [ k \in { CodesTable[pd] : pd \in DOMAIN CodesTable }
                     \X { numToString(n) : n \in 1000..(1000 + MaxSeq - 1) }
               |-> FinalSKU(k[1], k[2]) ]
FinalSKUOf(c, sequentialNumber) ==
  IF << c, sequentialNumber >> \in DOMAIN FinalSKUTable
  THEN FinalSKUTable[<< c, sequentialNumber >>]
  ELSE FinalSKU(c, sequentialNumber)
\* variant: the supplied SKU is not validated
ValidTable_AcceptAll == << >> @@ [ req \in Requests |-> TRUE ]
ValidTable == << >> @@ [ req \in Requests |-> validateSKU(req.sku).valid ]

(***************************************************************************)
(* State.                                                                  *)
(***************************************************************************)
VARIABLES
  store,   \* the products collection: the bag of the stored products' SKUs
  proc,    \* the asynchronous calls in flight, one record per workflow
  arg,     \* the argument of a validateSKU / parseSKU call
  ret      \* what that call returned

vars == << store, proc, arg, ret >>

Procs == {1, 2}
maxAttempts == 1000

\* Math.floor(Math.random() * 9000) + 1000
Candidates == 1000..(1000 + MaxSeq - 1)
\* Math.floor(Math.random() * 1000): the draws the model takes
Randoms == {7}

\* Product.findOne({ sku }) answering: a stored product or null
findOne(sku) == BagIn(sku, store)

\* variant: the collection has no unique index on sku
UniqueIndexAllows_NoIndex(sku) == TRUE

\* the unique index on products.sku (productSchema.sku unique: true, and
\* createIndex({ sku: 1 }, { unique: true, sparse: true })): an insert is
\* accepted when no stored product has the SKU
UniqueIndexAllows(sku) == ~BagIn(sku, store)

\* a workflow at rest
IdleProc ==
  [ pc |-> "idle", kind |-> "none",
    data |-> Undefined, codes |-> Undefined,
    attempts |-> 0, baseNumber |-> 0, draws |-> 0, checks |-> 0, absentSeen |-> 0,
    sequentialNumber |-> Undefined, byTimestamp |-> FALSE, stamp |-> Undefined,
    allocCollided |-> FALSE, finalAnswer |-> "none", regenerated |-> FALSE,
    finalSku |-> Undefined, generated |-> FALSE, repoThrew |-> FALSE,
    status |-> 0, err |-> "none", inserted |-> FALSE,
    items |-> << >>, item |-> 0, results |-> << >>, threwAt |-> {}, inFlight |-> 0 ]

(***************************************************************************)
(* generateSKU (skuGenerator.js 189-257), from one await to the next.      *)
(***************************************************************************)
\* lines 191-226 and 139-148: the codes, the prefix, the allocator's first
\* draw n, up to the first Product.findOne
GenEnter(r, productData, n) ==
  [ r EXCEPT !.pc = "allocFind", !.data = productData, !.codes = CodesOf(productData),
             !.attempts = 0, !.baseNumber = n, !.draws = 1, !.checks = 0,
             !.absentSeen = 0,
             !.sequentialNumber = Undefined, !.byTimestamp = FALSE,
             !.stamp = Undefined, !.finalAnswer = "none", !.allocCollided = FALSE ]

\* a stored SKU of the final form that has the five codes c and the sequence
\* number seq (history: what the allocator is meant to avoid)
UsedBy(c, seq) ==
  \E s \in BagToSet(store) :
    LET parts == split(s, "-")
    IN  /\ Len(parts) = 7
        /\ SubSeq(parts, 1, 5) = << c.categoryCode, c.subcategoryCode, c.materialCode,
                                    c.brandCode, c.priceCode >>
        /\ parts[6] = seq

\* the draws of the allocator that the batch's next item starts, when the
\* call in r belongs to a batch that has a next item (otherwise none is made)
NextDraws(r) ==
  IF r.kind = "batch" /\ r.item < Len(r.items) THEN Candidates ELSE {0}

\* variant: results.unshift(...) in place of results.push(...)
BatchPush_Unshift(r, result, n) ==
  LET pushed == [ r EXCEPT !.results = << result >> \o @, !.inFlight = 0 ]
  IN  IF r.item < Len(r.items)
      THEN [ GenEnter(pushed, r.items[r.item + 1], n)
               EXCEPT !.item = r.item + 1, !.regenerated = FALSE, !.repoThrew = FALSE,
                      !.inFlight = 1 ]
      ELSE [ pushed EXCEPT !.pc = "batchDone" ]

\* generateBatchSKUs (329-347): the result pushed for an item, then the next
\* item's generateSKU up to its first await, or the end of the loop
BatchPush(r, result, n) ==
  LET pushed == [ r EXCEPT !.results = Append(@, result), !.inFlight = 0 ]
  IN  IF r.item < Len(r.items)
      THEN [ GenEnter(pushed, r.items[r.item + 1], n)
               EXCEPT !.item = r.item + 1, !.regenerated = FALSE, !.repoThrew = FALSE,
                      !.inFlight = 1 ]
      ELSE [ pushed EXCEPT !.pc = "batchDone" ]

\* generateSKU has returned: its locals are gone; what the caller holds, and
\* the history of the call, stay
Returned(r) ==
  [ IdleProc EXCEPT !.kind = r.kind, !.finalSku = r.finalSku, !.generated = r.generated,
                    !.repoThrew = r.repoThrew, !.regenerated = r.regenerated,
                    !.finalAnswer = r.finalAnswer, !.allocCollided = r.allocCollided ]

\* generateSKU resolves with sku: the caller's continuation. createProduct
\* (49-88) goes on to Product.create; generateBatchSKUs pushes a success;
\* generateProductSKU (product.controller.js 1079-1087) goes on to product.save().
GenReturn(r, sku, n) ==
  LET r1 == [ r EXCEPT !.finalSku = sku, !.generated = TRUE ]
  IN  IF r.kind = "batch"
      THEN BatchPush(r1, [ productData |-> r.items[r.item], sku |-> sku,
                           success |-> TRUE, error |-> NoError ], n)
      ELSE IF r.kind = "generateProductSKU"
      THEN [ Returned(r1) EXCEPT !.pc = "save", !.items = r.items ]
      ELSE [ Returned(r1) EXCEPT !.pc = "create" ]

\* the catch block (247-256): the error is logged and a fallback SKU returned
GenCatch(r, now, random, n) ==
  GenReturn([ r EXCEPT !.repoThrew = TRUE,
                       !.threwAt = IF r.kind = "batch" THEN @ \cup {r.item} ELSE @ ],
            FallbackSKU(r.data, now, random), n)

\* lines 229-236: the allocator has returned sequentialNumber; the final SKU
\* is assembled and the second Product.findOne issued
GenAssemble(r, sequentialNumber) ==
  [ r EXCEPT !.pc = "finalFind", !.sequentialNumber = sequentialNumber,
             !.allocCollided = (~r.byTimestamp /\ UsedBy(r.codes, sequentialNumber)),
             !.finalSku = FinalSKUOf(r.codes, sequentialNumber) ]

\* variant: while (attempts <= maxAttempts)
MoreAttempts_OffByOne(attempts) == attempts <= maxAttempts

\* line 142: while (attempts < maxAttempts)
MoreAttempts(attempts) == attempts < maxAttempts

\* variant: if (existingProduct) return ...
CandidateFree_Inverted(sku) == findOne(sku)

\* lines 148-149: the candidate is returned when the lookup finds no product
CandidateFree(sku) == ~findOne(sku)

\* generateSequentialNumber (138-159) resumed after its Product.findOne.
\* The lookup threw (the catch block reads the clock and draws a number, and
\* a batch goes on to its next item, whose allocator draws m), or it answered.
\* A taken candidate is followed by the next draw n or, after maxAttempts
\* lookups, by the last four digits of the clock.
generateSequentialNumber(p, fail) ==
  /\ proc[p].pc = "allocFind"
  /\ \E r \in { [ proc[p] EXCEPT !.checks = @ + 1 ] } :
     \E sku \in { PrefixOf(r.codes) \o numToString(r.baseNumber) } :
       IF fail
       THEN \E now \in Clock, random \in Randoms, m \in NextDraws(r) :
              proc' = [ proc EXCEPT ![p] = GenCatch(r, now, random, m) ]
       ELSE IF CandidateFree(sku)
       THEN \E found \in { [ r EXCEPT !.absentSeen = @ + 1 ] } :
              proc' = [ proc EXCEPT ![p] = GenAssemble(found, numToString(r.baseNumber)) ]
       ELSE IF MoreAttempts(r.attempts + 1)
       THEN \E n \in Candidates :
              proc' = [ proc EXCEPT ![p] =
                [ r EXCEPT !.attempts = @ + 1, !.baseNumber = n, !.draws = @ + 1 ] ]
       ELSE \E now \in Clock :
            \E spent \in { [ r EXCEPT !.attempts = @ + 1, !.byTimestamp = TRUE,
                                      !.stamp = now ] } :
              proc' = [ proc EXCEPT ![p] =
                GenAssemble(spent, sliceLast(NowToString(now), 4)) ]
  /\ UNCHANGED << store, arg, ret >>

\* variant: the answer of the final lookup is ignored
FinalCollision_Ignored(finalSKU) == FALSE

\* lines 236-237: the final lookup finds a product with the assembled SKU
FinalCollision(finalSKU) == findOne(finalSKU)

\* variant: generateSKU stores the SKU it returns
generateSKU_Reserving(p, fail) ==
  /\ proc[p].pc = "finalFind"
  /\ ~fail
  /\ ~FinalCollision(proc[p].finalSku)
  /\ \E m \in NextDraws(proc[p]) :
       proc' = [ proc EXCEPT ![p] = GenReturn(proc[p], proc[p].finalSku, m) ]
  /\ store' = store (+) SetToBag({ proc[p].finalSku })
  /\ UNCHANGED << arg, ret >>

\* generateSKU resumed after the final Product.findOne (236-245): the lookup
\* threw, or found the SKU (generateSKU is called again with the name
\* changed, and its allocator draws n), or did not (the SKU is returned; a
\* batch goes on to its next item, whose allocator draws m)
generateSKU(p, fail) ==
  /\ proc[p].pc = "finalFind"
  /\ \E r \in { proc[p] } :
       IF fail
       THEN \E now \in Clock, random \in Randoms, m \in NextDraws(r) :
              proc' = [ proc EXCEPT ![p] = GenCatch(r, now, random, m) ]
       ELSE IF FinalCollision(r.finalSku)
       THEN \E now \in Clock, n \in Candidates :
            \E again \in { [ r EXCEPT !.regenerated = TRUE ] },
               productData \in { RenamedData(r.data, now) } :
              proc' = [ proc EXCEPT ![p] = GenEnter(again, productData, n) ]
       ELSE \E m \in NextDraws(r) :
            \E answered \in { [ r EXCEPT !.finalAnswer =
                                  IF findOne(r.finalSku) THEN "exists" ELSE "absent" ] } :
              proc' = [ proc EXCEPT ![p] = GenReturn(answered, r.finalSku, m) ]
  /\ UNCHANGED << store, arg, ret >>

\* generateSKU rejects (it does not, see GenCatch): createProduct's catch
\* (product.controller.js 58-61) answers 500, generateBatchSKUs' catch
\* (skuGenerator.js 336-343) pushes a failure and goes on
GenReject(r, n) ==
  LET r1 == [ r EXCEPT !.repoThrew = TRUE, !.finalSku = Undefined,
                       !.threwAt = IF r.kind = "batch" THEN @ \cup {r.item} ELSE @ ]
  IN  IF r.kind = "batch"
      THEN BatchPush(r1, [ productData |-> r.items[r.item], sku |-> NullSku,
                           success |-> FALSE, error |-> "error.message" ], n)
      ELSE [ Returned(r1) EXCEPT !.pc = "done", !.status = 500, !.err = "generate" ]

(***************************************************************************)
(* generateBatchSKUs (skuGenerator.js 329-347)                             *)
(***************************************************************************)
generateBatchSKUs(p, productsData) ==
  LET r == [ IdleProc EXCEPT !.kind = "batch", !.items = productsData ]
  IN  /\ proc[p].pc = "idle"
      /\ IF Len(productsData) = 0
         THEN proc' = [ proc EXCEPT ![p] = [ r EXCEPT !.pc = "batchDone" ] ]
         ELSE \E n \in Candidates :
                proc' = [ proc EXCEPT ![p] =
                  [ GenEnter(r, productsData[1], n) EXCEPT !.item = 1, !.inFlight = 1 ] ]
      /\ UNCHANGED << store, arg, ret >>

(***************************************************************************)
(* createProduct (product.controller.js 9-107)                             *)
(***************************************************************************)
\* lines 10-56: a request arrives (the workflow is idle or has answered its
\* last request) and is read; a supplied SKU is validated and looked up,
\* otherwise generateSKU is called, and its allocator draws n
createProduct(p, req) ==
  LET r == [ IdleProc EXCEPT !.kind = "createProduct" ]
  IN  /\ proc[p].pc \in {"idle", "done"}
      /\ BagCardinality(store) < MaxProducts
      /\ IF req.sku # Undefined /\ req.sku # << >>
         THEN proc' = [ proc EXCEPT ![p] =
                IF ~ValidTable[req]
                THEN [ r EXCEPT !.pc = "done", !.status = 400, !.err = "invalid",
                                !.finalSku = req.sku ]
                ELSE [ r EXCEPT !.pc = "checkSku", !.finalSku = req.sku ] ]
         ELSE \E n \in Candidates :
                proc' = [ proc EXCEPT ![p] = GenEnter(r, GenerateArgs(req), n) ]
      /\ UNCHANGED << store, arg, ret >>

\* lines 42-45: the lookup of the supplied SKU answers
createProductFindOne(p, fail) ==
  LET r == proc[p]
  IN  /\ r.pc = "checkSku"
      /\ proc' = [ proc EXCEPT ![p] =
           IF fail THEN [ r EXCEPT !.pc = "done", !.status = 500, !.err = "repository" ]
           ELSE IF findOne(r.finalSku)
           THEN [ r EXCEPT !.pc = "done", !.status = 400, !.err = "exists" ]
           ELSE [ r EXCEPT !.pc = "create" ] ]
      /\ UNCHANGED << store, arg, ret >>

\* lines 70-107: Product.create answers. The schema trims the SKU; the unique
\* index rejects a duplicate (E11000, which errorHandler turns into a 400).
createProductInsert(p, fail) ==
  LET r == proc[p]
      sku == trim(r.finalSku)
  IN  /\ r.pc = "create"
      /\ IF fail
         THEN /\ proc' = [ proc EXCEPT ![p] =
                   [ r EXCEPT !.pc = "done", !.status = 500, !.err = "repository" ] ]
              /\ UNCHANGED store
         ELSE IF ~UniqueIndexAllows(sku)
         THEN /\ proc' = [ proc EXCEPT ![p] =
                   [ r EXCEPT !.pc = "done", !.status = 400, !.err = "E11000" ] ]
              /\ UNCHANGED store
         ELSE /\ store' = store (+) SetToBag({sku})
              /\ proc' = [ proc EXCEPT ![p] =
                   [ r EXCEPT !.pc = "done", !.status = 201, !.inserted = TRUE ] ]
      /\ UNCHANGED << arg, ret >>

(***************************************************************************)
(* generateProductSKU (product.controller.js 1059-1102)                    *)
(***************************************************************************)
\* lines 1059-1084: Product.findById answers with product (Null: no such
\* product). A product that has a SKU is answered with the parse of that SKU
\* unless force is set; otherwise generateSKU is called, and its allocator
\* draws n.
generateProductSKU(p, product, force) ==
  LET r == [ IdleProc EXCEPT !.kind = "generateProductSKU", !.items = << product >> ]
  IN  /\ proc[p].pc = "idle"
      /\ IF product = Null
         THEN /\ proc' = [ proc EXCEPT ![p] =
                   [ r EXCEPT !.pc = "done", !.status = 404, !.err = "notFound",
                              !.items = << >> ] ]
              /\ UNCHANGED << arg, ret >>
         ELSE IF product.sku # Undefined /\ product.sku # << >> /\ ~force
         THEN /\ proc' = [ proc EXCEPT ![p] =
                   [ r EXCEPT !.pc = "done", !.status = 200, !.finalSku = product.sku ] ]
              /\ arg' = product.sku
              /\ ret' = [ op |-> "parseSKU", value |-> parseSKU(product.sku) ]
         ELSE /\ \E n \in Candidates :
                   proc' = [ proc EXCEPT ![p] = GenEnter(r, GenerateArgs(product), n) ]
              /\ UNCHANGED << arg, ret >>
      /\ UNCHANGED store

\* lines 1086-1101: product.sku = newSku and product.save() answers. The
\* save threw, or the unique index found the SKU on another product (the
\* catch answers 500), or the product now holds the SKU and the response
\* carries parseSKU(newSku).
generateProductSKUSave(p, fail) ==
  LET r == proc[p]
      product == r.items[1]
      sku == trim(r.finalSku)
      held == IF product.sku = Undefined \/ product.sku = << >>
              THEN EmptyBag ELSE SetToBag({product.sku})
      others == store (-) held
  IN  /\ r.pc = "save"
      /\ IF fail \/ BagIn(sku, others)
         THEN /\ proc' = [ proc EXCEPT ![p] =
                   [ r EXCEPT !.pc = "done", !.status = 500, !.err = "generate" ] ]
              /\ UNCHANGED << store, arg, ret >>
         ELSE /\ store' = others (+) SetToBag({sku})
              /\ proc' = [ proc EXCEPT ![p] =
                   [ r EXCEPT !.pc = "done", !.status = 200, !.inserted = TRUE ] ]
              /\ arg' = r.finalSku
              /\ ret' = [ op |-> "parseSKU", value |-> parseSKU(r.finalSku) ]

(***************************************************************************)
(* Concurrent createProduct requests.                                      *)
(***************************************************************************)
Init ==
  /\ store = EmptyBag
  /\ proc = [ p \in Procs |-> IdleProc ]
  /\ arg = Undefined
  /\ ret = NoCall

Next ==
  \/ \E p \in Procs, req \in Requests : createProduct(p, req)
  \/ \E p \in Procs, fail \in BOOLEAN : createProductFindOne(p, fail)
  \/ \E p \in Procs, fail \in BOOLEAN : generateSequentialNumber(p, fail)
  \/ \E p \in Procs, fail \in BOOLEAN : generateSKU(p, fail)
  \/ \E p \in Procs, fail \in BOOLEAN : createProductInsert(p, fail)

Spec == Init /\ [][Next]_vars

\* The event loop resumes every call whose lookup has answered, and
\* Math.random() returns every candidate again and again.
Fairness ==
  \A p \in Procs :
    /\ WF_vars(\E fail \in BOOLEAN : generateSequentialNumber(p, fail))
    /\ WF_vars(\E fail \in BOOLEAN : generateSKU(p, fail))
    /\ \A n \in Candidates :
         /\ SF_vars(generateSKU(p, FALSE) /\ proc'[p].pc = "allocFind"
                      /\ proc'[p].baseNumber = n)
         /\ SF_vars(generateSequentialNumber(p, FALSE) /\ proc'[p].pc = "allocFind"
                      /\ proc'[p].baseNumber = n)

FairSpec == Init /\ [][Next]_vars /\ Fairness

(***************************************************************************)
(* One generateBatchSKUs call, on a catalogue that may already hold the    *)
(* first SKU of the empty payload.                                         *)
(***************************************************************************)
BatchProc == 1

BatchLists == UNION { [ 1..k -> BatchPayloads ] : k \in 0..MaxBatch }

BatchStores ==
  { EmptyBag, SetToBag({ FinalSKU(Codes(EmptyPayload), numToString(1000)) }) }

BatchInit ==
  /\ store \in BatchStores
  /\ proc = [ p \in Procs |-> IdleProc ]
  /\ arg = Undefined
  /\ ret = NoCall

BatchNext ==
  \/ \E productsData \in BatchLists : generateBatchSKUs(BatchProc, productsData)
  \/ \E fail \in BOOLEAN : generateSequentialNumber(BatchProc, fail)
  \/ \E fail \in BOOLEAN : generateSKU(BatchProc, fail)

BatchSpec == BatchInit /\ [][BatchNext]_vars

(***************************************************************************)
(* One generateSequentialNumber call, on a catalogue in which updateProduct*)
(* (product.controller.js 259-280, which stores any SKU that no other      *)
(* product has) has stored SKUs of the unhyphenated form the allocator     *)
(* looks up.                                                               *)
(***************************************************************************)
AllocProc == 1

RawSKUs == { PrefixOf(Codes(EmptyPayload)) \o numToString(n) : n \in Candidates }

AllocInit ==
  /\ \E S \in SUBSET RawSKUs : store = SetToBag(S)
  /\ \E n \in Candidates :
       proc = [ p \in Procs |->
                  IF p = AllocProc
                  THEN GenEnter([ IdleProc EXCEPT !.kind = "createProduct" ],
                                EmptyPayload, n)
                  ELSE IdleProc ]
  /\ arg = Undefined
  /\ ret = NoCall

AllocNext == \E fail \in BOOLEAN : generateSequentialNumber(AllocProc, fail)

AllocSpec == AllocInit /\ [][AllocNext]_vars

(***************************************************************************)
(* validateSKU and parseSKU applied to one argument.                       *)
(***************************************************************************)
\* well-formed and ill-formed arguments: every known code set with every
\* candidate sequence number and every final digit, and strings that are no
\* SKU
SkuInputs ==
  { join(<< c.categoryCode, c.subcategoryCode, c.materialCode, c.brandCode, c.priceCode,
            numToString(n), numToString(d) >>, <<"-">>) :
      c \in { CodesTable[pd] : pd \in DOMAIN CodesTable }, n \in Candidates, d \in 0..9 }
  \cup
  \* every capital letter in the price position, with every final digit
  { join(<< <<"G","E","N">>, <<"G","E","N">>, <<"G","E","N">>, <<"U","N","B">>,
            << x >>, numToString(1000), numToString(d) >>, <<"-">>) :
      x \in UpperLetters, d \in 0..9 }
  \cup
  { Undefined,
    << >>,
    <<"n","o","t","-","a","-","s","k","u">>,
    <<"D","R","-","0","0","1">>,
    <<"a","-","b","-","c","-","d","-","e","-","f","-","g">>,
    \* a valid SKU with one hyphen missing
    <<"G","E","N","-","G","E","N","-","G","E","N","-","U","N","B","-","A",
      "1","0","0","0","-","3">>,
    \* a valid SKU in lower case
    <<"g","e","n","-","g","e","n","-","g","e","n","-","u","n","b","-","a","-",
      "1","0","0","0","-","3">>,
    FallbackSKU(EmptyPayload, CHOOSE t \in Clock : TRUE, 7) }

PureInit ==
  /\ store = EmptyBag
  /\ proc = [ p \in Procs |-> IdleProc ]
  /\ arg \in SkuInputs
  /\ ret = NoCall

CallValidate ==
  /\ ret = NoCall
  /\ ret' = [ op |-> "validateSKU", value |-> validateSKU(arg) ]
  /\ UNCHANGED << store, proc, arg >>

CallParse ==
  /\ ret = NoCall
  /\ ret' = [ op |-> "parseSKU", value |-> parseSKU(arg) ]
  /\ UNCHANGED << store, proc, arg >>

PureNext == CallValidate \/ CallParse

PureSpec == PureInit /\ [][PureNext]_vars

(***************************************************************************)
(* validateSKU applied to a valid SKU in which one digit of the sequence   *)
(* number was replaced, or two neighbouring digits were exchanged.         *)
(***************************************************************************)
\* every sequence number generateSequentialNumber can return: four digits
SequenceNumbers == [ 1..4 -> Range(Digits) ]

\* the SKUs generateSKU assembles (229-233) for the empty payload, which
\* validateSKU accepts
TamperInit ==
  /\ store = EmptyBag
  /\ proc = [ p \in Procs |-> IdleProc ]
  /\ \E seq \in SequenceNumbers :
       /\ arg = FinalSKU(CodesTable[EmptyPayload], seq)
       /\ validateSKU(arg).valid
  /\ ret = NoCall

\* the positions of the sequence number in a SKU of the fixed pattern
SequencePositions == 19..22

Substitute ==
  /\ ret = NoCall
  /\ \E i \in SequencePositions, d \in Range(Digits) :
       /\ d # arg[i]
       /\ arg' = [ arg EXCEPT ![i] = d ]
       /\ ret' = [ op |-> "substituted", value |-> validateSKU(arg') ]
  /\ UNCHANGED << store, proc >>

Transpose ==
  /\ ret = NoCall
  /\ \E i \in SequencePositions \ {22} :
       /\ arg[i] # arg[i + 1]
       /\ arg' = [ arg EXCEPT ![i] = arg[i + 1], ![i + 1] = arg[i] ]
       /\ ret' = [ op |-> "transposed", value |-> validateSKU(arg') ]
  /\ UNCHANGED << store, proc >>

TamperNext == Substitute \/ Transpose

TamperSpec == TamperInit /\ [][TamperNext]_vars

(***************************************************************************)
(* generateCheckDigit applied to one string of capital letters and digits. *)
(***************************************************************************)
\* short strings over letters below and above J (the tenth letter) and
\* digits below and above 5, and the strings generateSKU and validateSKU
\* pass (229-230, 274-277)
CheckDigitBodies ==
  UNION { [ 1..k -> {"A", "J", "Z", "0", "5", "9"} ] : k \in 1..MaxBodyLen }
  \cup { PrefixOf(CodesTable[pd]) \o numToString(n) :
           pd \in BatchPayloads, n \in Candidates }

CheckDigitInit ==
  /\ store = EmptyBag
  /\ proc = [ p \in Procs |-> IdleProc ]
  /\ arg \in CheckDigitBodies
  /\ ret = NoCall

CallCheckDigit ==
  /\ ret = NoCall
  /\ ret' = [ op |-> "generateCheckDigit", value |-> generateCheckDigit(arg) ]
  /\ UNCHANGED << store, proc, arg >>

CheckDigitNext == CallCheckDigit

CheckDigitSpec == CheckDigitInit /\ [][CheckDigitNext]_vars

(***************************************************************************)
(* One generateProductSKU request: the SKU generateSKU returns for a       *)
(* stored product is saved and given to parseSKU.                          *)
(***************************************************************************)
CodecProc == 1

\* the SKU of the seed data's form that one stored product already has
SeedSku == <<"D","R","-","0","0","1">>

\* prices on both sides of every threshold of lines 216-222
CodecPrices == { NoPrice, 0, 1, 4999, 5000, 9999, 10000, 19999, 20000, 49999, 50000 }

\* name, category, subcategory and tags of the stored products
CodecShapes ==
  { \* nothing set
    << Undefined, Undefined, Undefined, NoTags >>,
    \* every value in the tables, the material a single word
    << <<"G","o","l","d"," ","R","i","n","g">>, <<"F","a","s","h","i","o","n">>, <<"R","i","n","g","s">>, << <<"g","i","f","t">> >> >>,
    \* every value in the tables, the material two words
    << <<"S","t","a","i","n","l","e","s","s"," ","S","t","e","e","l"," ","W","a","t","c","h">>, <<"F","a","s","h","i","o","n">>, <<"W","a","t","c","h","e","s">>, << >> >>,
    \* a two-word material of the table that contains a one-word material
    << <<"R","o","s","e"," ","G","o","l","d"," ","R","i","n","g">>, <<"F","a","s","h","i","o","n">>, <<"R","i","n","g","s">>, << >> >>,
    \* a subcategory with no table entry whose first three letters are the
    \* code of another
    << <<"S","u","n","s","c","r","e","e","n">>, <<"B","e","a","u","t","y">>, <<"S","u","n","s","c","r","e","e","n">>, << >> >>,
    \* a category with no table entry, a subcategory of two letters
    << <<"M","y","s","t","e","r","y"," ","B","o","x">>, <<"U","n","k","n","o","w","n"," ","T","h","i","n","g">>, <<"T","V">>, << >> >> }

\* the stored products: no SKU yet, a price or only an original price; and
\* one product that has the seed SKU
CodecProducts ==
  { [ Request(Undefined, sh[1], sh[2], sh[3], sh[4], price)
        EXCEPT !.originalPrice = originalPrice ] :
      sh \in CodecShapes, price \in CodecPrices, originalPrice \in {NoPrice, 0} }
  \cup { Request(SeedSku, Undefined, Undefined, Undefined, NoTags, NoPrice) }

CodecInit ==
  /\ store = SetToBag({SeedSku})
  /\ proc = [ p \in Procs |-> IdleProc ]
  /\ arg = Undefined
  /\ ret = NoCall

CodecNext ==
  \/ \E product \in CodecProducts \cup {Null}, force \in BOOLEAN :
       generateProductSKU(CodecProc, product, force)
  \/ \E fail \in BOOLEAN : generateSequentialNumber(CodecProc, fail)
  \/ \E fail \in BOOLEAN : generateSKU(CodecProc, fail)
  \/ \E fail \in BOOLEAN : generateProductSKUSave(CodecProc, fail)

CodecSpec == CodecInit /\ [][CodecNext]_vars

(***************************************************************************)
(* One generateSKU call (made by generateBatchSKUs for a single item) on a *)
(* catalogue that holds a SKU generateSKU returned earlier for one of the  *)
(* payloads.                                                               *)
(***************************************************************************)
RegenProc == 1

RegenPayloads ==
  { EmptyPayload,
    \* a material keyword in the name
    Payload(<<"G","o","l","d"," ","R","i","n","g">>, <<"F","a","s","h","i","o","n">>, <<"R","i","n","g","s">>, Undefined, << <<"g","i","f","t">> >>, 5000),
    \* a material keyword that begins in the name and ends in the tags
    Payload(<<"S","t","a","i","n","l","e","s","s">>, <<"F","a","s","h","i","o","n">>, <<"W","a","t","c","h","e","s">>, Undefined, << <<"s","t","e","e","l">> >>, NoPrice) }

RegenStores ==
  { SetToBag({ FinalSKU(Codes(pd), numToString(n)) }) :
      pd \in RegenPayloads, n \in Candidates }

RegenInit ==
  /\ store \in RegenStores
  /\ proc = [ p \in Procs |-> IdleProc ]
  /\ arg = Undefined
  /\ ret = NoCall

RegenNext ==
  \/ \E pd \in RegenPayloads : generateBatchSKUs(RegenProc, << pd >>)
  \/ \E fail \in BOOLEAN : generateSequentialNumber(RegenProc, fail)
  \/ \E fail \in BOOLEAN : generateSKU(RegenProc, fail)

RegenSpec == RegenInit /\ [][RegenNext]_vars

(***************************************************************************)
(* Properties.                                                             *)
(***************************************************************************)
\* the calls that are inside generateSKU
Generating(p) == proc[p].pc \in {"allocFind", "finalFind"}
\* generateSKU has returned a SKU to createProduct, which has not answered yet
Holding(p) == proc[p].pc = "create" /\ proc[p].generated

\* C1: every string generateSKU returns is accepted by validateSKU, whatever
\* the payload, the catalogue, or a failure of the repository.
C1_GeneratedSkuIsValid ==
  \A p \in Procs : Holding(p) => validateSKU(proc[p].finalSku).valid

\* C2: when a Product.findOne lookup throws during generateSKU, the call
\* fails: no SKU string is returned for it.
C2_LookupFailurePropagates ==
  \A p \in Procs : proc[p].repoThrew => ~proc[p].generated

\* C3: when the repository throws during exactly one item of a batch, there
\* is one result per item, the failing item's result has success = false, a
\* null sku and its error, and every other result has success = true.
C3_BatchPartialFailure ==
  LET r == proc[BatchProc]
  IN  (r.pc = "batchDone" /\ Cardinality(r.threwAt) = 1) =>
        /\ Len(r.results) = Len(r.items)
        /\ \A i \in DOMAIN r.results :
             /\ r.results[i].success = (i \notin r.threwAt)
             /\ i \in r.threwAt =>
                  r.results[i].sku = NullSku /\ r.results[i].error # NoError

\* C4: every generateSKU call terminates, also when every SKU of its prefix
\* is stored.
C4_GenerateTerminates ==
  \A p \in Procs : Generating(p) ~> ~Generating(p)

\* C5: no two stored products share a SKU, and an insert the unique index
\* rejected (E11000) carried a SKU that a stored product has.
C5_StoredSkusUnique ==
  /\ \A s \in BagToSet(store) : CopiesIn(s, store) = 1
  /\ \A p \in Procs :
       proc[p].err = "E11000" => BagIn(trim(proc[p].finalSku), store)

\* C5 witness: a generated SKU was rejected by the unique index.
C5_DuplicateRejected ==
  \E p \in Procs : proc[p].err = "E11000" /\ proc[p].generated /\ ~proc[p].repoThrew

\* C6: the existence checks are no reservation: whenever two workflows hold
\* the same generated SKU that no product has yet, the final lookup of each
\* answered that the SKU is absent.
C6_BothPassedTheirChecks ==
  \A p, q \in Procs :
    ( /\ p # q /\ Holding(p) /\ Holding(q)
      /\ ~proc[p].repoThrew /\ ~proc[q].repoThrew
      /\ proc[p].finalSku = proc[q].finalSku )
    => proc[p].finalAnswer = "absent" /\ proc[q].finalAnswer = "absent"

\* C6 witness: two concurrent generateSKU calls have both returned the same
\* SKU, and neither caller has persisted it.
C6_SameSkuReturnedTwice ==
  \E p, q \in Procs :
    /\ p # q /\ Holding(p) /\ Holding(q)
    /\ ~proc[p].repoThrew /\ ~proc[q].repoThrew
    /\ proc[p].finalAnswer = "absent" /\ proc[q].finalAnswer = "absent"
    /\ proc[p].finalSku = proc[q].finalSku
    /\ ~BagIn(proc[p].finalSku, store)

\* C7: on its random path the allocator never returns a sequence number that
\* a stored SKU of the final form with the same five codes uses.
C7_AllocatorAvoidsStored ==
  \A p \in Procs : ~proc[p].allocCollided

\* C8: the allocator makes one lookup per candidate drawn and returns the
\* first candidate the repository reports absent.
C8_FirstFreeCandidate ==
  LET r == proc[AllocProc]
  IN  /\ r.pc = "allocFind" =>
           r.checks = r.draws - 1 /\ r.attempts = r.checks /\ r.absentSeen = 0
      /\ (r.pc = "finalFind" /\ ~r.byTimestamp) =>
           /\ r.checks = r.draws /\ r.attempts = r.checks - 1 /\ r.absentSeen = 1
           /\ r.sequentialNumber = numToString(r.baseNumber)
           /\ ~BagIn(PrefixOf(r.codes) \o r.sequentialNumber, store)

\* C8 witness: the first two candidates were taken and the third free.
C8_ThirdCandidateReturned ==
  LET r == proc[AllocProc]
  IN  /\ r.pc = "finalFind" /\ ~r.byTimestamp
      /\ r.checks = 3 /\ r.attempts = 2
      /\ r.sequentialNumber = numToString(r.baseNumber)

\* C9: when every candidate is reported taken the allocator stops after
\* exactly maxAttempts lookups and returns four decimal digits, the last four
\* of the clock; it makes no further lookup and leaves only by returning or
\* by a lookup that threw.
C9_TimestampFallback ==
  LET r == proc[AllocProc]
  IN  /\ r.checks <= maxAttempts
      /\ (r.pc = "finalFind" /\ r.absentSeen = 0) => r.byTimestamp
      /\ (r.pc = "finalFind" /\ r.byTimestamp) =>
           /\ r.checks = maxAttempts /\ r.absentSeen = 0
           /\ Len(r.sequentialNumber) = 4 /\ AllDigits(r.sequentialNumber)
           /\ r.sequentialNumber = sliceLast(NowToString(r.stamp), 4)
      /\ r.pc \notin {"allocFind", "finalFind"} => r.repoThrew

\* C9 witness: the allocator has returned on the timestamp path.
C9_FallbackTaken ==
  LET r == proc[AllocProc]
  IN  r.pc = "finalFind" /\ r.byTimestamp /\ r.checks = maxAttempts

\* the number of hyphens of a string
Hyphens(s) == Cardinality({ i \in DOMAIN s : s[i] = "-" })

Unhyphenated(s) == SelectSeq(s, LAMBDA c : c # "-")
\* a string of the fixed pattern whose final digit is not the check digit of
\* the characters before it
WrongCheckDigit(s) ==
  /\ skuPattern(s)
  /\ IndexIn(s[24], Digits) - 1 # generateCheckDigit(Unhyphenated(SubSeq(s, 1, 22)))

\* C11: validateSKU answers a string of the fixed pattern with a wrong final
\* digit by valid = false and the check-digit error; that error is not the
\* error of any string that does not match the pattern; every call returns a
\* result.
C11_CheckDigitErrorDistinct ==
  ret.op = "validateSKU" =>
    /\ ret.value.valid \in BOOLEAN
    /\ WrongCheckDigit(arg) => ret.value = [valid |-> FALSE, error |-> ErrCheckDigit]
    /\ ~skuPattern(arg) => ~ret.value.valid /\ ret.value.error # ErrCheckDigit
    /\ ret.value.error = ErrCheckDigit => WrongCheckDigit(arg)

\* C11 witness: a string of the pattern with a wrong final digit was validated.
C11_WrongDigitValidated ==
  ret.op = "validateSKU" /\ WrongCheckDigit(arg) /\ ret.value.error = ErrCheckDigit

\* C12: "not-a-sku", the empty string and a valid SKU with one hyphen missing
\* all get the same result, valid = false with the format error.
C12_FormatRejection ==
  ( /\ ret.op = "validateSKU"
    /\ arg \in { <<"n","o","t","-","a","-","s","k","u">>, << >>,
                 <<"G","E","N","-","G","E","N","-","G","E","N","-","U","N","B","-","A",
                   "1","0","0","0","-","3">> } )
  => ret.value = [valid |-> FALSE, error |-> ErrFormat]

\* C13: a valid SKU in which one digit of the sequence number was replaced by
\* another digit is rejected with the check-digit error.
C13_SubstitutionDetected ==
  ret.op = "substituted" => ret.value = [valid |-> FALSE, error |-> ErrCheckDigit]

\* C13 witness: a 0 at a doubled position of the sequence number was
\* replaced by a 5, and validateSKU has answered.
C13_ZeroToFive ==
  /\ ret.op = "substituted" /\ ~ret.value.valid
  /\ SubSeq(arg, 19, 22) = <<"1","0","5","0">>
  /\ arg[24] = numToString(generateCheckDigit(
                 Unhyphenated(SubSeq(arg, 1, 18)) \o <<"1","0","0","0">>))[1]

\* C14: a valid SKU in which two neighbouring, different digits of the
\* sequence number were exchanged is rejected with the check-digit error.
C14_TranspositionDetected ==
  ret.op = "transposed" => ret.value = [valid |-> FALSE, error |-> ErrCheckDigit]

\* the sum of the decimal digits of a number below 100
DigitSum(n) == (n \div 10) + (n % 10)
\* the reference algorithm: the values from the right, the first, third, ...
\* doubled, a doubled value above 9 replaced by the sum of its digits
ReferenceValue(s, i) ==
  LET v == IF s[i] \in Range(Upper) THEN IndexIn(s[i], Upper) ELSE IndexIn(s[i], Digits) - 1
  IN  IF (Len(s) - i) % 2 = 0
      THEN IF 2 * v > 9 THEN DigitSum(2 * v) ELSE 2 * v
      ELSE v
RECURSIVE ReferenceSum(_, _)
ReferenceSum(s, i) == IF i = 0 THEN 0 ELSE ReferenceValue(s, i) + ReferenceSum(s, i - 1)
ReferenceCheckDigit(s) == (10 - (ReferenceSum(s, Len(s)) % 10)) % 10

\* C15: generateCheckDigit equals the reference algorithm: letters count 1
\* to 26 and digits themselves, every second value is doubled starting with
\* the rightmost, a doubled value above 9 becomes the sum of its digits, and
\* the result is (10 - (sum mod 10)) mod 10.
C15_MatchesReference ==
  ret.op = "generateCheckDigit" => ret.value = ReferenceCheckDigit(arg)

\* the names a code table has
Keys(table) == { table[i][1] : i \in DOMAIN table }
\* generateSKU returned a SKU assembled from the codes (no lookup threw), it
\* was saved, and parseSKU was applied to it
Decoded(p) ==
  /\ proc[p].kind = "generateProductSKU" /\ proc[p].pc = "done"
  /\ proc[p].generated /\ ~proc[p].repoThrew
  /\ ret.op = "parseSKU"
\* the material names of the table that the product's name or tags contain
ContainedMaterials(product) ==
  LET tagList == IF product.tags = NoTags THEN << >> ELSE product.tags
      text == toLowerCase(Interpolate(product.name) \o <<" ">> \o join(tagList, <<" ">>))
  IN  { k \in Keys(MATERIAL_CODES) : includes(text, toLowerCase(k)) }

\* C16: when the product's category and subcategory are names of the code
\* tables and its name or tags contain a material name of the table, the
\* parse of the generated SKU is a record whose category and subcategory are
\* those names and whose material is a contained material name.
C16_RoundTrip ==
  \A p \in Procs :
    Decoded(p) =>
      LET product == proc[p].items[1]
      IN  ( /\ product.category \in Keys(CATEGORY_CODES)
            /\ product.subcategory \in Keys(SUBCATEGORY_CODES)
            /\ ContainedMaterials(product) # {} )
          => /\ ret.value # Null
             /\ ret.value.category = product.category
             /\ ret.value.subcategory = product.subcategory
             /\ ret.value.material \in ContainedMaterials(product)

\* C17: the parse of every SKU generateSKU assembled is a record whose
\* category, subcategory, material and price range are all set.
C17_NoNullField ==
  \A p \in Procs :
    Decoded(p) =>
      /\ ret.value # Null
      /\ ret.value.category # Undefined
      /\ ret.value.subcategory # Undefined
      /\ ret.value.material # Undefined
      /\ ret.value.priceRange # "undefined"

\* C18: for a subcategory that is not a name of the subcategory table, the
\* parse of the generated SKU has no subcategory name and has the first
\* three letters of the subcategory, uppercased, as its subcategory code.
C18_TruncatedSubcategory ==
  \A p \in Procs :
    Decoded(p) =>
      LET subcategory == proc[p].items[1].subcategory
      IN  ( /\ subcategory # Undefined
            /\ subcategory # << >>
            /\ subcategory \notin Keys(SUBCATEGORY_CODES) )
          => /\ ret.value # Null
             /\ ret.value.subcategory = Undefined
             /\ ret.value.subcategoryCode = toUpperCase(substring(subcategory, 0, 3))

\* the tier with inclusive lower bounds, B from 0 on, A for a missing price
InclusiveTier(price) ==
  IF price = NoPrice THEN "A"
  ELSE IF price >= 50000 THEN "P"
  ELSE IF price >= 20000 THEN "H"
  ELSE IF price >= 10000 THEN "M"
  ELSE IF price >= 5000 THEN "L"
  ELSE "B"

\* C19: the price code generateSKU computes is the tier with inclusive lower
\* bounds of the price it was given: B for every price from 0 up to 4999, A
\* only for a missing price.
C19_PriceTier ==
  \A p \in Procs :
    Generating(p) =>
      proc[p].codes.priceCode = << InclusiveTier(proc[p].data.price) >>

\* C20: the category code generateSKU computes is the table's code for a
\* category of the table, GEN for an empty or missing category, and the
\* first three letters uppercased for any other category.
C20_CategoryTruncated ==
  \A p \in Procs :
    Generating(p) =>
      LET category == proc[p].data.category
      IN  proc[p].codes.categoryCode =
            IF category = Undefined \/ category = << >> THEN <<"G","E","N">>
            ELSE IF category \in Keys(CATEGORY_CODES) THEN Lookup(CATEGORY_CODES, category)
            ELSE toUpperCase(substring(category, 0, 3))

\* C21: each of the category, subcategory, material and brand codes that
\* generateSKU computes is three capital letters.
C21_ThreeLetterCodes ==
  \A p \in Procs :
    Generating(p) =>
      \A code \in { proc[p].codes.categoryCode, proc[p].codes.subcategoryCode,
                    proc[p].codes.materialCode, proc[p].codes.brandCode } :
        Len(code) = 3 /\ AllUpper(code)

\* C22: when the name and tags contain a material name of the table and a
\* longer material name of the table that contains it, the material code is
\* not the code of the shorter one but the table's code of a contained name
\* that no other contained name contains; with no keyword of the priority
\* list in the text the code is GEN.
C22_MostSpecificMaterial ==
  \A p \in Procs :
    Generating(p) =>
      LET contained == ContainedMaterials(proc[p].data)
          Within(k, k2) == k # k2 /\ includes(toLowerCase(k2), toLowerCase(k))
          specific == { k \in contained : \A k2 \in contained : ~Within(k, k2) }
      IN  /\ (\E k, k2 \in contained : Within(k, k2))
               => proc[p].codes.materialCode
                    \in { Lookup(MATERIAL_CODES, k) : k \in specific }
          /\ contained = {} => proc[p].codes.materialCode = <<"G","E","N">>

\* C23: every string validateSKU accepts has one of the letters P, H, M, L,
\* B, A in the price position.
C23_TierAlphabet ==
  (ret.op = "validateSKU" /\ ret.value.valid) =>
    arg[17] \in {"P", "H", "M", "L", "B", "A"}

\* C24 as stated: every string validateSKU accepts has 27 characters, 6 of
\* them hyphens, between segments of 3, 3, 3, 3, 1, 4 and 1 characters.
C24_Length27 ==
  (ret.op = "validateSKU" /\ ret.value.valid) =>
    /\ Len(arg) = 27
    /\ Hyphens(arg) = 6
    /\ [ i \in 1..7 |-> Len(split(arg, "-")[i]) ] = << 3, 3, 3, 3, 1, 4, 1 >>

\* C24 amended: every string validateSKU accepts has 24 characters, of which
\* exactly the 4th, 8th, 12th, 16th, 18th and 23rd are hyphens, between
\* segments of 3, 3, 3, 3, 1, 4 and 1 characters.
C24_Length24 ==
  (ret.op = "validateSKU" /\ ret.value.valid) =>
    /\ Len(arg) = 24
    /\ { i \in DOMAIN arg : arg[i] = "-" } = {4, 8, 12, 16, 18, 23}
    /\ [ i \in 1..7 |-> Len(split(arg, "-")[i]) ] = << 3, 3, 3, 3, 1, 4, 1 >>

\* C24 witness: validateSKU accepted a string, a SKU generateSKU assembles
\* for the payload with every value in the tables.
C24_AcceptedSku ==
  /\ ret.op = "validateSKU" /\ ret.value.valid
  /\ SubSeq(arg, 1, 17) = <<"F","S","H","-","R","N","G","-","G","L","D","-",
                            "A","C","M","-","L">>

\* C28: for a string of the fixed pattern, exactly one final digit makes
\* validateSKU accept the characters before it: the digit generateCheckDigit
\* returns for them without their hyphens. With that digit the string is
\* accepted, with any other it is rejected with the check-digit error.
C28_ExactlyOneCheckDigit ==
  (ret.op = "validateSKU" /\ skuPattern(arg)) =>
    LET body == SubSeq(arg, 1, 23)
        digit == generateCheckDigit(Unhyphenated(body))
        accepted == { d \in 0..9 : validateSKU(body \o numToString(d)).valid }
    IN  /\ accepted = { digit }
        /\ ret.value = IF arg[24] = Digits[digit + 1]
                       THEN [valid |-> TRUE, error |-> NoError]
                       ELSE [valid |-> FALSE, error |-> ErrCheckDigit]

\* C28 witness: a string whose characters before the final digit have the
\* check digit 0 was validated with another final digit and rejected.
C28_ZeroCheckDigitBody ==
  /\ ret.op = "validateSKU" /\ skuPattern(arg)
  /\ generateCheckDigit(Unhyphenated(SubSeq(arg, 1, 23))) = 0
  /\ arg[24] # "0"
  /\ ret.value.error = ErrCheckDigit

\* C25: every item of a batch during which no lookup threw gets a SKU with
\* success = true, whatever fields its payload lacks; the SKU of the empty
\* payload has the segments GEN, GEN, GEN, UNB and A.
C25_EmptyPayloadSucceeds ==
  LET r == proc[BatchProc]
  IN  \A i \in DOMAIN r.results :
        i \notin r.threwAt =>
          /\ r.results[i].success
          /\ r.results[i].sku # NullSku
          /\ r.results[i].productData = EmptyPayload =>
               SubSeq(split(r.results[i].sku, "-"), 1, 5)
                 = << <<"G","E","N">>, <<"G","E","N">>, <<"G","E","N">>,
                      <<"U","N","B">>, <<"A">> >>

\* C25 witness: a batch has ended in which the empty payload got its SKU
\* without any lookup throwing.
C25_EmptyPayloadGenerated ==
  LET r == proc[BatchProc]
  IN  /\ r.pc = "batchDone"
      /\ \E i \in DOMAIN r.results :
           /\ i \notin r.threwAt
           /\ r.results[i].productData = EmptyPayload
           /\ r.results[i].success

\* C26: no step of generateSequentialNumber or generateSKU, and no step of
\* createProduct that validates or looks up a SKU or calls generateSKU,
\* changes the stored products; they change only in the step in which
\* createProduct's Product.create answers with the product inserted.
C26_GenerateOnlyReads ==
  [][ /\ (\E p \in Procs : proc'[p] # proc[p] /\ proc[p].pc # "create")
           => store' = store
      /\ store' # store
           => \E p \in Procs : /\ proc[p].pc = "create"
                               /\ proc'[p].pc = "done" /\ proc'[p].inserted
                               /\ store' = store (+) SetToBag({ trim(proc[p].finalSku) })
    ]_vars

\* C26 witness: generateSKU has returned a SKU to createProduct, after a
\* final collision and a second allocation, and the stored products are
\* those that were stored before the call.
C26_ReturnedNothingStored ==
  \E p \in Procs :
    /\ Holding(p) /\ proc[p].regenerated
    /\ ~BagIn(proc[p].finalSku, store)
    /\ BagCardinality(store) = 1

\* C27: in a batch at most one generateSKU call is in flight; the call for an
\* item is in flight only when the results of all items before it, and no
\* others, are recorded; the results are those of the items in the items'
\* order, and the batch ends with one result per item.
C27_BatchSequential ==
  LET r == proc[BatchProc]
  IN  r.kind = "batch" =>
        /\ r.inFlight \in {0, 1}
        /\ r.inFlight = 1 <=> Generating(BatchProc)
        /\ Len(r.results) = r.item - r.inFlight
        /\ Len(r.results) <= Len(r.items)
        /\ \A i \in DOMAIN r.results : r.results[i].productData = r.items[i]
        /\ r.pc = "batchDone" => Len(r.results) = Len(r.items)

\* C27 witness: a batch of at least two items, the first two different, has
\* ended.
C27_BatchEnded ==
  LET r == proc[BatchProc]
  IN  /\ r.pc = "batchDone"
      /\ Len(r.items) >= 2 /\ r.items[1] # r.items[2]
      /\ Len(r.results) = Len(r.items)

\* C29: a SKU that generateSKU returns after it found its assembled SKU
\* stored and called itself with the name changed has the five segments
\* (category, subcategory, material, brand, price) of the SKU it found
\* stored, those of the payload it was called with.
C29_RegenerationKeepsPrefix ==
  LET r == proc[RegenProc]
  IN  ( /\ r.pc = "batchDone" /\ r.regenerated
        /\ Len(r.results) = 1 /\ 1 \notin r.threwAt )
      => LET c == Codes(r.items[1])
         IN  SubSeq(split(r.results[1].sku, "-"), 1, 5)
               = << c.categoryCode, c.subcategoryCode, c.materialCode,
                    c.brandCode, c.priceCode >>

\* createProduct was given a SKU by the client and has read it
Supplied(p) ==
  /\ proc[p].kind = "createProduct" /\ proc[p].pc \in {"checkSku", "create", "done"}
  /\ ~proc[p].generated /\ proc[p].finalSku # Undefined

====
